---- MODULE Spec2Model ----
(***************************************************************************)
(* Manning chart generator (manning_web_app.py): the time parser, the role *)
(* classifier, the shift bucketing and the per-date grid assembly of       *)
(* process_schedule_file.                                                  *)
(*                                                                         *)
(* Text is modelled as a sequence of one-character strings, so that        *)
(* strip(), lower(), replace(), re.match() and re.split() are computed on  *)
(* characters.  A time of day is a whole number of minutes: the float      *)
(* hour + minute/60.0 of the source is 1/60 of it, and every comparison    *)
(* the source makes is against a multiple of half an hour.                 *)
(***************************************************************************)
EXTENDS Integers, Sequences, FiniteSets, TLC

VARIABLES
    call,                      \* harness: the pending call of a pure function
    ret,                       \* harness: what that call returned
    gen,                       \* description of the generated input
    pc,                        \* position inside process_schedule_file
    location,                  \* argument location
    wb,                        \* the workbook at file_path
    date_columns,              \* List[int]
    date_labels,               \* List[str]
    file_counter,              \* index of the date column being processed
    row_idx,                   \* number of data rows already scanned
    shift_data,                \* one {station: [entry]} mapping per shift
    total_assignments_found,
    mapped_assignments_found,
    unmapped_roles_list,
    outputs,                   \* the list process_schedule_file returns
    save_errors,               \* the date columns whose out_wb.save raised
    CURRENT_OUTPUTS,           \* module global: the latest batch of file names
    uploads,                   \* number of upload requests handled or in hand
    input_files,               \* INPUT_DIR: the uploads whose saved file is there
    flashed                    \* category and text of the last flash() of upload

webVars == <<CURRENT_OUTPUTS, uploads, input_files, flashed>>

vars == <<call, ret, gen, pc, location, wb, date_columns, date_labels,
          file_counter, row_idx, shift_data, total_assignments_found,
          mapped_assignments_found, unmapped_roles_list, outputs,
          save_errors, webVars>>

procVars == <<pc, location, wb, date_columns, date_labels, file_counter,
              row_idx, shift_data, total_assignments_found,
              mapped_assignments_found, unmapped_roles_list, outputs,
              save_errors>>

-----------------------------------------------------------------------------
(* Python values *)

None == [none |-> TRUE]
Some(v) == [none |-> FALSE, value |-> v]

-----------------------------------------------------------------------------
(* Characters and the str methods the source uses *)

DigitSeq == <<"0", "1", "2", "3", "4", "5", "6", "7", "8", "9">>
UpperSeq == <<"A", "B", "C", "D", "E", "F", "G", "H", "I", "J", "K", "L", "M",
              "N", "O", "P", "Q", "R", "S", "T", "U", "V", "W", "X", "Y", "Z">>
LowerSeq == <<"a", "b", "c", "d", "e", "f", "g", "h", "i", "j", "k", "l", "m",
              "n", "o", "p", "q", "r", "s", "t", "u", "v", "w", "x", "y", "z">>

Range(s) == {s[i] : i \in DOMAIN s}

Digits == Range(DigitSeq)
Whitespace == {" ", "\t", "\n", "\r", "\f"}
WordChars == Digits \cup Range(UpperSeq) \cup Range(LowerSeq) \cup {"_"}

IndexOf(c, s) == CHOOSE i \in DOMAIN s : s[i] = c

DigitVal(c) == IndexOf(c, DigitSeq) - 1

LowerChar(c) == IF c \in Range(UpperSeq) THEN LowerSeq[IndexOf(c, UpperSeq)] ELSE c
UpperChar(c) == IF c \in Range(LowerSeq) THEN UpperSeq[IndexOf(c, LowerSeq)] ELSE c

lower(s) == [i \in DOMAIN s |-> LowerChar(s[i])]
upper(s) == [i \in DOMAIN s |-> UpperChar(s[i])]

Min(S) == CHOOSE x \in S : \A y \in S : x <= y
Max(S) == CHOOSE x \in S : \A y \in S : x >= y

\* str.strip(): drop leading and trailing whitespace
strip(s) ==
    LET keep == {i \in DOMAIN s : s[i] \notin Whitespace}
    IN  IF keep = {} THEN <<>> ELSE SubSeq(s, Min(keep), Max(keep))

\* str.replace("\n", "")
remove_newlines(s) == SelectSeq(s, LAMBDA c : c # "\n")

\* sub in s
Contains(s, sub) ==
    \E i \in 0..(Len(s) - Len(sub)) : SubSeq(s, i + 1, i + Len(sub)) = sub

\* int() of a run of decimal digits
int(ds) == IF Len(ds) = 1 THEN DigitVal(ds[1])
           ELSE 10 * DigitVal(ds[1]) + DigitVal(ds[2])

IsDigitAt(s, i) == i \in DOMAIN s /\ s[i] \in Digits
IsCharAt(s, i, c) == i \in DOMAIN s /\ s[i] = c

\* \s* from position i: the position of the first character that is not
\* whitespace (Len(s) + 1 when there is none)
SkipSpace(s, i) ==
    Min({j \in i..(Len(s) + 1) : j = Len(s) + 1 \/ s[j] \notin Whitespace})

\* \d{1,2} followed by ":" at the start of s: the number of digits taken by
\* the greedy, backtracking match, 0 when it fails
HourDigits(s, i) ==
    IF IsDigitAt(s, i) /\ IsDigitAt(s, i + 1) /\ IsCharAt(s, i + 2, ":") THEN 2
    ELSE IF IsDigitAt(s, i) /\ IsCharAt(s, i + 1, ":") THEN 1
    ELSE 0

-----------------------------------------------------------------------------
(* parse_time *)

MinutesPerHour == 60

\* re.match(r"(\d{1,2}):(\d{2})\s*(AM|PM)", time_str, re.IGNORECASE): the
\* groups of the match, or None
TimeMatch(s) ==
    LET hd == HourDigits(s, 1)
        mp == hd + 2
        ap == SkipSpace(s, mp + 2)
    IN  IF hd = 0 THEN None
        ELSE IF ~(IsDigitAt(s, mp) /\ IsDigitAt(s, mp + 1)) THEN None
        ELSE IF ap + 1 > Len(s) THEN None
        ELSE IF upper(SubSeq(s, ap, ap + 1)) \notin {<<"A", "M">>, <<"P", "M">>} THEN None
        ELSE Some([hour |-> int(SubSeq(s, 1, hd)),
                   minute |-> int(SubSeq(s, mp, mp + 1)),
                   meridiem |-> upper(SubSeq(s, ap, ap + 1))])

\* The adjustment without the rule for 12 AM
AdjustHour_NoMidnight(hour, meridiem) ==
    IF meridiem = <<"P", "M">> /\ hour # 12 THEN hour + 12 ELSE hour

\* The hour after the meridiem adjustment
AdjustHour(hour, meridiem) ==
    LET h1 == IF meridiem = <<"P", "M">> /\ hour # 12 THEN hour + 12 ELSE hour
    IN  IF meridiem = <<"A", "M">> /\ h1 = 12 THEN 0 ELSE h1

\* The result in minutes: Some(60 * (hour + minute/60.0)), or None
parse_time(time_str) ==
    LET match == TimeMatch(strip(time_str))
    IN  IF match = None THEN None
        ELSE Some(MinutesPerHour * AdjustHour(match.value.hour, match.value.meridiem)
                  + match.value.minute)

-----------------------------------------------------------------------------
(* The mappings module: role tables of the two locations.  A dict is a    *)
(* sequence of << key, value >> pairs with distinct keys, a keyword list  *)
(* is the list of its << keyword, station >> rules.                       *)

\* mappings.SOUTHSIDE_MAPPING: lower-cased role -> station
SOUTHSIDE_MAPPING ==
    << << <<"c", "a", "s", "h", "i", "e", "r">>, "CASHIER" >>,
       << <<"p", "i", "z", "z", "a", " ", "c", "o", "o", "k">>, "POTOMAC PIE" >>,
       << <<"u", "t", "i", "l", "i", "t", "y">>, "DISHROOM" >>,
       << <<"p", "i", "z", "z", "a", " ", "c", "a", "s", "h", "i", "e", "r">>, "CASHIER" >> >>

\* mappings.IKES_MAPPING: lower-cased role -> station
IKES_MAPPING ==
    << << <<"c", "a", "s", "h", "i", "e", "r">>, "CASHIER" >>,
       << <<"g", "r", "i", "l", "l", " ", "c", "o", "o", "k">>, "GRILL" >>,
       << <<"d", "e", "l", "i", " ", "c", "a", "s", "h", "i", "e", "r">>, "CASHIER" >>,
       << <<"d", "e", "l", "i">>, "HOMESLICE" >>,
       << <<"s", "a", "l", "a", "d", " ", "p", "r", "e", "p">>, "SALAD BAR" >>,
       << <<"h", "o", "m", "e", "s", "t", "y", "l", "e", " ", "c", "o", "o", "k">>, "HOMESTYLE" >>,
       << <<"d", "i", "s", "h">>, "DISHROOM" >>,
       << <<"m", "a", "n", "a", "g", "e", "r">>, "NONE" >> >>

\* mappings.SOUTHSIDE_KEYWORDS: (keyword, station) rules in declaration order
SOUTHSIDE_KEYWORDS ==
    << << <<"p", "i", "z", "z", "a">>, "POTOMAC PIE" >>,
       << <<"p", "a", "s", "t", "a">>, "LITTLE ITALY" >>,
       << <<"u", "t", "i", "l", "i", "t", "y">>, "DISHROOM" >>,
       << <<"d", "e", "s", "s", "e", "r", "t">>, "BLUE RIDGE BAKERY" >> >>

\* mappings.IKES_KEYWORDS: (keyword, station) rules in declaration order
IKES_KEYWORDS ==
    << << <<"c", "o", "l", "d", " ", "p", "r", "e", "p">>, "SALAD BAR" >>,
       << <<"d", "e", "l", "i">>, "HOMESLICE" >>,
       << <<"f", "l", "i", "p", "s">>, "GRILL" >>,
       << <<"p", "r", "o", "d", "u", "c", "t", "i", "o", "n">>, "HOMESTYLE" >> >>

\* Additional mappings not in the Excel file
FALLBACK_MAPPINGS ==
    << << <<"a", "m", " ", "p", "a", "s", "t", "a">>, "LITTLE ITALY" >> >>

IGNORED_ROLES == {<<"s", "c", "h", "e", "d", "u", "l", "e", "d", " ", "e", "l", "s", "e", "w", "h", "e", "r", "e">>}

\* The station names in the order sorted() gives them
StationOrder ==
    << "BLUE RIDGE BAKERY", "CASHIER", "DISHROOM", "GRILL", "HOMESLICE",
       "HOMESTYLE", "LITTLE ITALY", "NONE", "POTOMAC PIE", "SALAD BAR" >>

\* key in d, d[key], d.values()
HasKey(d, key) == \E i \in DOMAIN d : d[i][1] = key
Get(d, key) == d[CHOOSE i \in DOMAIN d : d[i][1] = key][2]
Values(d) == {d[i][2] : i \in DOMAIN d}

-----------------------------------------------------------------------------
(* get_category *)

\* role.strip().replace("\n", "").strip().lower()
role_lower(role) == lower(strip(remove_newlines(strip(role))))

\* The rule with the longest matching keyword instead of the first one
KeywordLookup_Longest(rules, text) ==
    LET hits == {i \in DOMAIN rules : Contains(text, rules[i][1])}
    IN  IF hits = {} THEN None
        ELSE Some(rules[CHOOSE i \in hits :
                    \A j \in hits : Len(rules[i][1]) >= Len(rules[j][1])][2])

\* for keyword, station in rules: if keyword in text: return station
KeywordLookup(rules, text) ==
    LET hits == {i \in DOMAIN rules : Contains(text, rules[i][1])}
    IN  IF hits = {} THEN None ELSE Some(rules[Min(hits)][2])

\* The keyword scan ahead of the exact lookup
get_category_KeywordsFirst(role, loc) ==
    LET rules == IF loc = "southside" THEN SOUTHSIDE_KEYWORDS ELSE IKES_KEYWORDS
        table == IF loc = "southside" THEN SOUTHSIDE_MAPPING ELSE IKES_MAPPING
    IN  IF role = <<>> \/ loc \notin {"southside", "ikes"} THEN None
        ELSE IF KeywordLookup(rules, role_lower(role)) # None
            THEN KeywordLookup(rules, role_lower(role))
        ELSE IF HasKey(table, role_lower(role))
            THEN Some(Get(table, role_lower(role)))
        ELSE None

get_category(role, loc) ==
    IF role = <<>> THEN None
    ELSE IF loc = "southside" THEN
        IF HasKey(SOUTHSIDE_MAPPING, role_lower(role))
            THEN Some(Get(SOUTHSIDE_MAPPING, role_lower(role)))
        ELSE IF HasKey(FALLBACK_MAPPINGS, role_lower(role))
            THEN Some(Get(FALLBACK_MAPPINGS, role_lower(role)))
        ELSE KeywordLookup(SOUTHSIDE_KEYWORDS, role_lower(role))
    ELSE IF loc = "ikes" THEN
        IF HasKey(IKES_MAPPING, role_lower(role))
            THEN Some(Get(IKES_MAPPING, role_lower(role)))
        ELSE KeywordLookup(IKES_KEYWORDS, role_lower(role))
    ELSE None

-----------------------------------------------------------------------------
(* get_stations_layout *)

chunk_size == 5

\* sorted(list(set(...))) of station names
sorted(S) == SelectSeq(StationOrder, LAMBDA s : s \in S)

\* rows.append(known_stations[i:i + chunk_size]) for i in range(0, len, chunk_size)
Chunks(seq) ==
    [k \in 1..((Len(seq) + chunk_size - 1) \div chunk_size) |->
        SubSeq(seq, (k - 1) * chunk_size + 1,
               IF k * chunk_size < Len(seq) THEN k * chunk_size ELSE Len(seq))]

get_stations_layout(loc) ==
    LET known_stations ==
            IF loc = "southside"
            THEN SelectSeq(sorted(Values(SOUTHSIDE_MAPPING)), LAMBDA s : s # "")
            ELSE SelectSeq(sorted(Values(IKES_MAPPING)),
                           LAMBDA s : s # "" /\ s # "NONE")
    IN  IF known_stations = <<>> THEN << <<"NO STATIONS MAPPED">> >>
        ELSE Chunks(known_stations)

\* {category for group in row_groups for category in group}
LayoutStations(row_groups) ==
    UNION {Range(row_groups[g]) : g \in DOMAIN row_groups}

-----------------------------------------------------------------------------
(* The cell text of process_schedule_file *)

\* A cell without a value reads as None; it is the empty text here
Falsy(v) == v = <<>>

\* str(value): None prints as "None"
str(v) == IF v = <<>> THEN <<"N", "o", "n", "e">> ELSE v

RECURSIVE re_split(_)
\* re.split(r"\n{2,}", s): cut s at every maximal run of two or more line
\* breaks
re_split(s) ==
    LET runs == {i \in 1..(Len(s) - 1) : s[i] = "\n" /\ s[i + 1] = "\n"}
    IN  IF runs = {} THEN <<s>>
        ELSE LET i == Min(runs)
                 j == Min({k \in i..(Len(s) + 1) : k = Len(s) + 1 \/ s[k] # "\n"})
             IN  <<SubSeq(s, 1, i - 1)>> \o re_split(SubSeq(s, j, Len(s)))

\* assignments = [s for s in re.split(r"\n{2,}", cell_str) if s.strip()]
Assignments(cell_val) ==
    SelectSeq(re_split(strip(str(cell_val))), LAMBDA b : strip(b) # <<>>)

\* \d{1,2}:\d{2}\s*\w{2} at position i of s: the position of its last
\* character, 0 when it does not match
TimeToken(s, i) ==
    LET hd == HourDigits(s, i)
        mp == i + hd + 1
        wp == SkipSpace(s, mp + 2)
    IN  IF hd = 0 THEN 0
        ELSE IF ~(IsDigitAt(s, mp) /\ IsDigitAt(s, mp + 1)) THEN 0
        ELSE IF wp + 1 > Len(s) THEN 0
        ELSE IF s[wp] \notin WordChars \/ s[wp + 1] \notin WordChars THEN 0
        ELSE wp + 1

\* re.match(r"(\d{1,2}:\d{2}\s*\w{2})\s*-\s*(\d{1,2}:\d{2}\s*\w{2})", s):
\* Some of its two groups, or None
RangeMatch(s) ==
    LET e1 == TimeToken(s, 1)
        dash == SkipSpace(s, e1 + 1)
        b2 == SkipSpace(s, dash + 1)
        e2 == TimeToken(s, b2)
    IN  IF e1 = 0 THEN None
        ELSE IF ~IsCharAt(s, dash, "-") THEN None
        ELSE IF e2 = 0 THEN None
        ELSE Some([g1 |-> SubSeq(s, 1, e1), g2 |-> SubSeq(s, b2, e2)])

\* Every block paired with the block after it
CandidatePairs_Sliding(assignments) ==
    [k \in 1..(Len(assignments) - 1) |->
        [name |-> strip(assignments[k]),
         time_range |-> strip(assignments[k + 1])]]

\* The pairs with the two blocks taken in the other order
CandidatePairs_Swapped(assignments) ==
    [k \in 1..(Len(assignments) \div 2) |->
        [name |-> strip(assignments[2 * k]),
         time_range |-> strip(assignments[2 * k - 1])]]

\* The (name, time_range) pairs the while loop visits: blocks i and i + 1
\* for i = 0, 2, 4, ...
CandidatePairs(assignments) ==
    [k \in 1..(Len(assignments) \div 2) |->
        [name |-> strip(assignments[2 * k - 1]),
         time_range |-> strip(assignments[2 * k])]]

\* The pair passes both checks of the loop body: the range matches and its
\* start parses
PairIsValid(p) ==
    /\ RangeMatch(p.time_range) # None
    /\ parse_time(RangeMatch(p.time_range).value.g1) # None

\* str(role).strip().replace("\n", "").strip().lower() in IGNORED_ROLES
IsIgnored(role) == role_lower(str(role)) \in IGNORED_ROLES

\* The loop without the check of IGNORED_ROLES
ValidAssignments_IgnoredCounted(role, cell_val) ==
    LET pairs == CandidatePairs(Assignments(cell_val))
        kept == SelectSeq(pairs, LAMBDA p : PairIsValid(p))
    IN  [k \in DOMAIN kept |->
            [name |-> kept[k].name,
             g1 |-> RangeMatch(kept[k].time_range).value.g1,
             g2 |-> RangeMatch(kept[k].time_range).value.g2,
             start_time |-> parse_time(RangeMatch(kept[k].time_range).value.g1).value]]

\* valid_assignments_in_cell after the while loop: (name, m, start_time)
ValidAssignments(role, cell_val) ==
    LET pairs == CandidatePairs(Assignments(cell_val))
        kept == SelectSeq(pairs, LAMBDA p : PairIsValid(p) /\ ~IsIgnored(role))
    IN  [k \in DOMAIN kept |->
            [name |-> kept[k].name,
             g1 |-> RangeMatch(kept[k].time_range).value.g1,
             g2 |-> RangeMatch(kept[k].time_range).value.g2,
             start_time |-> parse_time(RangeMatch(kept[k].time_range).value.g1).value]]

\* entry = f"{name}\n{m.group(1)} - {m.group(2)}"
Entry(a) == a.name \o <<"\n">> \o a.g1 \o <<" ", "-", " ">> \o a.g2

-----------------------------------------------------------------------------
(* Shifts *)

\* n half hours, in minutes
HalfHours(n) == (n * MinutesPerHour) \div 2

\* shifts, with lower and upper in minutes
Shifts(loc) ==
    IF loc = "southside"
    THEN << [name |-> "5.30am-3.00pm", lower |-> HalfHours(11), upper |-> HalfHours(30)],
            [name |-> "3.00pm-11.30pm", lower |-> HalfHours(30), upper |-> HalfHours(47)] >>
    ELSE << [name |-> "5am-2pm", lower |-> HalfHours(10), upper |-> HalfHours(28)],
            [name |-> "2pm-10pm", lower |-> HalfHours(28), upper |-> HalfHours(44)],
            [name |-> "10pm-5am", lower |-> HalfHours(44), upper |-> HalfHours(48)] >>

\* The range scan over the shifts for every location
ShiftIndex_RangeScan(loc, start_time) ==
    LET shifts == Shifts(loc)
        hits == {i \in DOMAIN shifts :
                    shifts[i].lower <= start_time /\ start_time < shifts[i].upper}
    IN  IF hits = {} THEN -1 ELSE Min(hits) - 1

\* The upper bound of a Southside window taken as inclusive
ShiftIndex_UpperInclusive(loc, start_time) ==
    IF loc = "southside"
    THEN LET shifts == Shifts(loc)
             hits == {i \in DOMAIN shifts :
                        shifts[i].lower <= start_time /\ start_time <= shifts[i].upper}
         IN  IF hits = {} THEN -1 ELSE Min(hits) - 1
    ELSE IF 5 * MinutesPerHour <= start_time /\ start_time < 14 * MinutesPerHour THEN 0
    ELSE IF 14 * MinutesPerHour <= start_time /\ start_time < 22 * MinutesPerHour THEN 1
    ELSE 2

\* shift_index of a start time (0-based as in the source, -1 for none)
ShiftIndex(loc, start_time) ==
    IF loc = "southside"
    THEN LET shifts == Shifts(loc)
             hits == {i \in DOMAIN shifts :
                        shifts[i].lower <= start_time /\ start_time < shifts[i].upper}
         IN  IF hits = {} THEN -1 ELSE Min(hits) - 1
    ELSE IF 5 * MinutesPerHour <= start_time /\ start_time < 14 * MinutesPerHour THEN 0
    ELSE IF 14 * MinutesPerHour <= start_time /\ start_time < 22 * MinutesPerHour THEN 1
    ELSE 2

-----------------------------------------------------------------------------
(* process_schedule_file: the header and the date columns *)

LocationMarker(loc) ==
    IF loc = "southside" THEN <<"G", "M", "U", " ", "D", "H", "-", "S", "o", "u", "t", "h", "s", "i", "d", "e">>
    ELSE <<"G", "M", "U", " ", "D", "H", "-", "I", "k", "e">>

\* LOCATIONS.get(location, {}).get("name", location.title())
location_name(loc) ==
    IF loc = "ikes" THEN "Ikes" ELSE IF loc = "southside" THEN "Southside" ELSE "Other"

RECURSIVE findall_year(_)
\* re.findall(r"\d{4}", s): the runs of four digits, left to right, without
\* overlap
findall_year(s) ==
    LET at == {i \in 1..(Len(s) - 3) : \A k \in 0..3 : s[i + k] \in Digits}
    IN  IF at = {} THEN <<>>
        ELSE <<SubSeq(s, Min(at), Min(at) + 3)>>
             \o findall_year(SubSeq(s, Min(at) + 4, Len(s)))

\* year_matches[0] in place of year_matches[-1]
Year_First(a1) ==
    LET year_matches == findall_year(a1)
    IN  IF year_matches = <<>> THEN <<>> ELSE year_matches[1]

\* year = year_matches[-1] if year_matches else ""
Year(a1) ==
    LET year_matches == findall_year(a1)
    IN  IF year_matches = <<>> THEN <<>> ELSE year_matches[Len(year_matches)]

\* re.match in place of re.search: the pattern at the start of the text only
DateSearch_AtStart(s) ==
    IF /\ Len(s) >= 5
       /\ s[1] \in Digits /\ s[2] \in Digits /\ s[3] = "/"
       /\ s[4] \in Digits /\ s[5] \in Digits
    THEN Some(SubSeq(s, 1, 5))
    ELSE None

\* re.search(r"(\d{2}/\d{2})", s): Some of group 1, or None
DateSearch(s) ==
    LET at == {i \in 1..(Len(s) - 4) :
                 /\ s[i] \in Digits /\ s[i + 1] \in Digits /\ s[i + 2] = "/"
                 /\ s[i + 3] \in Digits /\ s[i + 4] \in Digits}
    IN  IF at = {} THEN None ELSE Some(SubSeq(s, Min(at), Min(at) + 4))

\* The header cell at 0-based index idx names a date
IsDateColumn(header_row, idx) ==
    /\ idx # 0
    /\ ~Falsy(header_row[idx + 1])
    /\ DateSearch(header_row[idx + 1]) # None

DateLabel(cell, year) ==
    LET label == DateSearch(cell).value
    IN  IF year # <<>> /\ ~Contains(label, year) THEN label \o <<"/">> \o year
        ELSE label

\* date_columns after the scan of the header row (0-based indices)
DateColumns(header_row) ==
    LET all == [i \in 1..Len(header_row) |-> i - 1]
    IN  SelectSeq(all, LAMBDA idx : IsDateColumn(header_row, idx))

DateLabels(header_row, year) ==
    LET cols == DateColumns(header_row)
    IN  [k \in DOMAIN cols |-> DateLabel(header_row[cols[k] + 1], year)]

-----------------------------------------------------------------------------
(* process_schedule_file: one data row of one date column *)

\* not category
NoCategory(category) == category = None \/ category.value = ""

\* for grp in row_groups: if category in grp: found_layout = True
FoundLayout(category, row_groups) ==
    \E g \in DOMAIN row_groups : category.value \in Range(row_groups[g])

\* The entries the loop over valid_assignments_in_cell appends to the list
\* of shift number s (0-based) under the station of the row
EntriesOfShift(valid, loc, s) ==
    LET hit == SelectSeq(valid, LAMBDA a : ShiftIndex(loc, a.start_time) = s)
    IN  [k \in DOMAIN hit |-> Entry(hit[k])]

\* The row reaches the loop that files its valid assignments
RowIsCharted(role, cell_val, loc) ==
    /\ ~Falsy(cell_val)
    /\ ~NoCategory(get_category(str(role), loc))
    /\ FoundLayout(get_category(str(role), loc), get_stations_layout(loc))

\* The entries of the row put in front of the list
ShiftDataAfter_Prepend(sd, role, cell_val, loc) ==
    IF ~RowIsCharted(role, cell_val, loc) THEN sd
    ELSE LET category == get_category(str(role), loc).value
             valid == ValidAssignments(role, cell_val)
         IN  [i \in DOMAIN sd |->
                IF category \in DOMAIN sd[i]
                THEN [sd[i] EXCEPT ![category] = EntriesOfShift(valid, loc, i - 1) \o @]
                ELSE sd[i]]

\* shift_data after the row
ShiftDataAfter(sd, role, cell_val, loc) ==
    IF ~RowIsCharted(role, cell_val, loc) THEN sd
    ELSE LET category == get_category(str(role), loc).value
             valid == ValidAssignments(role, cell_val)
         IN  [i \in DOMAIN sd |->
                IF category \in DOMAIN sd[i]
                THEN [sd[i] EXCEPT ![category] = @ \o EntriesOfShift(valid, loc, i - 1)]
                ELSE sd[i]]

\* Every valid assignment of a charted row counted, with or without a shift
MappedInRow_AllValid(sd, role, cell_val, loc) ==
    IF ~RowIsCharted(role, cell_val, loc) THEN 0
    ELSE Len(ValidAssignments(role, cell_val))

\* Every bucketed assignment of a classified row counted as mapped, with
\* neither the layout check nor the check of the key
MappedInRow_Bucketed(sd, role, cell_val, loc) ==
    IF Falsy(cell_val) \/ NoCategory(get_category(str(role), loc)) THEN 0
    ELSE LET valid == ValidAssignments(role, cell_val)
         IN  Cardinality({k \in DOMAIN valid :
                ShiftIndex(loc, valid[k].start_time) # -1})

\* The number of entries the row appends
MappedInRow(sd, role, cell_val, loc) ==
    IF ~RowIsCharted(role, cell_val, loc) THEN 0
    ELSE LET category == get_category(str(role), loc).value
             valid == ValidAssignments(role, cell_val)
         IN  Cardinality({k \in DOMAIN valid :
                /\ ShiftIndex(loc, valid[k].start_time) # -1
                /\ category \in DOMAIN sd[ShiftIndex(loc, valid[k].start_time) + 1]})

\* The role recorded also when one of its valid assignments has no shift
UnmappedAfter_NoShift(unmapped, role, cell_val, loc) ==
    IF /\ ~Falsy(cell_val)
       /\ \/ /\ NoCategory(get_category(str(role), loc))
             /\ ValidAssignments(role, cell_val) # <<>>
          \/ \E k \in DOMAIN ValidAssignments(role, cell_val) :
                ShiftIndex(loc, ValidAssignments(role, cell_val)[k].start_time) = -1
    THEN unmapped \cup {str(role)}
    ELSE unmapped

\* The role recorded also when its station is outside the layout
UnmappedAfter_OutsideLayout(unmapped, role, cell_val, loc) ==
    IF /\ ~Falsy(cell_val)
       /\ \/ NoCategory(get_category(str(role), loc))
          \/ ~FoundLayout(get_category(str(role), loc), get_stations_layout(loc))
       /\ ValidAssignments(role, cell_val) # <<>>
    THEN unmapped \cup {str(role)}
    ELSE unmapped

\* The role recorded whether or not the cell holds a valid assignment
UnmappedAfter_Always(unmapped, role, cell_val, loc) ==
    IF ~Falsy(cell_val) /\ NoCategory(get_category(str(role), loc))
    THEN unmapped \cup {str(role)}
    ELSE unmapped

\* unmapped_roles_list after the row
UnmappedAfter(unmapped, role, cell_val, loc) ==
    IF /\ ~Falsy(cell_val)
       /\ NoCategory(get_category(str(role), loc))
       /\ ValidAssignments(role, cell_val) # <<>>
    THEN unmapped \cup {str(role)}
    ELSE unmapped

\* The keys of the first row group only
EmptyShiftData_FirstGroup(loc) ==
    [i \in DOMAIN Shifts(loc) |->
        [category \in Range(get_stations_layout(loc)[1]) |-> <<>>]]

\* shift_data = [{category: [] for group in row_groups for category in group}
\*               for _ in shifts]
EmptyShiftData(loc) ==
    [i \in DOMAIN Shifts(loc) |->
        [category \in LayoutStations(get_stations_layout(loc)) |-> <<>>]]

\* out_filename: the date part comes from the date label, the stamp is the
\* same for every file of one run
out_filename(date_label, loc) == <<date_label, location_name(loc)>>

-----------------------------------------------------------------------------
(* process_schedule_file: the steps *)

OpenFails ==
    /\ pc = "start"
    /\ ~wb.openable
    /\ pc' = "done"
    /\ UNCHANGED <<call, ret, gen, location, wb, date_columns, date_labels,
                   file_counter, row_idx, shift_data, total_assignments_found,
                   mapped_assignments_found, unmapped_roles_list, outputs,
                   save_errors>>
    /\ UNCHANGED webVars

NoDateColumns ==
    /\ pc = "start"
    /\ wb.openable
    /\ DateColumns(wb.header) = <<>>
    /\ pc' = "done"
    /\ UNCHANGED <<call, ret, gen, location, wb, date_columns, date_labels,
                   file_counter, row_idx, shift_data, total_assignments_found,
                   mapped_assignments_found, unmapped_roles_list, outputs,
                   save_errors>>
    /\ UNCHANGED webVars

DatesFound ==
    /\ pc = "start"
    /\ wb.openable
    /\ DateColumns(wb.header) # <<>>
    /\ date_columns' = DateColumns(wb.header)
    /\ date_labels' = DateLabels(wb.header, Year(wb.a1))
    /\ file_counter' = 1
    /\ pc' = "date"
    /\ UNCHANGED <<call, ret, gen, location, wb, row_idx, shift_data,
                   total_assignments_found, mapped_assignments_found,
                   unmapped_roles_list, outputs,
                   save_errors>>
    /\ UNCHANGED webVars

\* The grid and the counters made for the first date column only
BeginDate_FirstOnly ==
    /\ pc = "date"
    /\ IF file_counter = 1
       THEN /\ shift_data' = EmptyShiftData(location)
            /\ total_assignments_found' = 0
            /\ mapped_assignments_found' = 0
            /\ unmapped_roles_list' = {}
       ELSE UNCHANGED <<shift_data, total_assignments_found,
                        mapped_assignments_found, unmapped_roles_list>>
    /\ row_idx' = 0
    /\ pc' = "rows"
    /\ UNCHANGED <<call, ret, gen, location, wb, date_columns, date_labels,
                   file_counter, outputs, save_errors>>
    /\ UNCHANGED webVars

BeginDate ==
    /\ pc = "date"
    /\ shift_data' = EmptyShiftData(location)
    /\ total_assignments_found' = 0
    /\ mapped_assignments_found' = 0
    /\ unmapped_roles_list' = {}
    /\ row_idx' = 0
    /\ pc' = "rows"
    /\ UNCHANGED <<call, ret, gen, location, wb, date_columns, date_labels,
                   file_counter, outputs,
                   save_errors>>
    /\ UNCHANGED webVars

ProcessRow ==
    /\ pc = "rows"
    /\ row_idx < Len(wb.rows)
    /\ LET row == wb.rows[row_idx + 1]
           role == row[1]
           cell_val == row[date_columns[file_counter] + 1]
       IN  /\ total_assignments_found' =
                IF Falsy(cell_val) THEN total_assignments_found
                ELSE total_assignments_found + Len(ValidAssignments(role, cell_val))
           /\ shift_data' = ShiftDataAfter(shift_data, role, cell_val, location)
           /\ mapped_assignments_found' =
                mapped_assignments_found
                + MappedInRow(shift_data, role, cell_val, location)
           /\ unmapped_roles_list' =
                UnmappedAfter(unmapped_roles_list, role, cell_val, location)
    /\ row_idx' = row_idx + 1
    /\ UNCHANGED <<call, ret, gen, pc, location, wb, date_columns, date_labels,
                   file_counter, outputs,
                   save_errors>>
    /\ UNCHANGED webVars

\* The end of one pass of the loop over the date columns
NextDate ==
    IF file_counter < Len(date_columns)
    THEN file_counter' = file_counter + 1 /\ pc' = "date"
    ELSE file_counter' = file_counter /\ pc' = "done"

SaveSucceeds ==
    /\ pc = "rows"
    /\ row_idx = Len(wb.rows)
    /\ outputs' = Append(outputs, out_filename(date_labels[file_counter], location))
    /\ NextDate
    /\ UNCHANGED <<call, ret, gen, location, wb, date_columns, date_labels,
                   row_idx, shift_data, total_assignments_found,
                   mapped_assignments_found, unmapped_roles_list, save_errors>>
    /\ UNCHANGED webVars

\* The loop over the date columns left at the first save that raises
SaveFails_Aborts ==
    /\ pc = "rows"
    /\ row_idx = Len(wb.rows)
    /\ save_errors' = save_errors \cup {file_counter}
    /\ pc' = "done"
    /\ UNCHANGED <<call, ret, gen, location, wb, date_columns, date_labels,
                   file_counter, row_idx, shift_data, total_assignments_found,
                   mapped_assignments_found, unmapped_roles_list, outputs>>
    /\ UNCHANGED webVars

SaveFails ==
    /\ pc = "rows"
    /\ row_idx = Len(wb.rows)
    /\ save_errors' = save_errors \cup {file_counter}
    /\ NextDate
    /\ UNCHANGED <<call, ret, gen, location, wb, date_columns, date_labels,
                   row_idx, shift_data, total_assignments_found,
                   mapped_assignments_found, unmapped_roles_list, outputs>>
    /\ UNCHANGED webVars

Next ==
    \/ OpenFails
    \/ NoDateColumns
    \/ DatesFound
    \/ BeginDate
    \/ ProcessRow
    \/ SaveSucceeds
    \/ SaveFails

-----------------------------------------------------------------------------
(* The workbooks *)

MaxRows == 2

\* Data rows: the role cell and the cells of the two schedule columns
RowTemplates ==
    { << <<"C", "a", "s", "h", "i", "e", "r">>,
         <<"J", "a", "n", "e", " ", "D", "o", "e", "\n", "\n", "6", ":", "0", "0", " ", "A", "M", " ", "-", " ", "2", ":", "0", "0", " ", "P", "M">>,
         <<"J", "a", "n", "e", " ", "D", "o", "e", "\n", "\n", "6", ":", "0", "0", " ", "A", "M", " ", "-", " ", "2", ":", "0", "0", " ", "P", "M">> >>,
      << <<"C", "a", "s", "h", "i", "e", "r">>,
         <<"A", "l", "\n", "\n", "3", ":", "0", "0", " ", "P", "M", " ", "-", " ", "1", "1", ":", "0", "0", " ", "P", "M", "\n", "\n", "B", "o", "\n", "\n", "1", "1", ":", "3", "0", " ", "P", "M", " ", "-", " ", "5", ":", "0", "0", " ", "A", "M">>,
         <<"J", "a", "n", "e", " ", "D", "o", "e", "\n", "6", ":", "0", "0", " ", "A", "M", " ", "-", " ", "2", ":", "0", "0", " ", "P", "M">> >>,
      << <<"U", "n", "k", "n", "o", "w", "n", " ", "R", "o", "l", "e">>,
         <<"A", "l", "\n", "\n", "4", ":", "0", "0", " ", "A", "M", " ", "-", " ", "9", ":", "0", "0", " ", "A", "M">>,
         <<"A", "l", "\n", "\n", "o", "f", "f">> >>,
      << <<"S", "c", "h", "e", "d", "u", "l", "e", "d", " ", "E", "l", "s", "e", "w", "h", "e", "r", "e">>,
         <<"A", "l", "\n", "\n", "6", ":", "0", "0", " ", "A", "M", " ", "-", " ", "2", ":", "0", "0", " ", "P", "M">>,
         <<>> >>,
      << <<"S", "o", "m", "e", " ", "P", "a", "s", "t", "a", " ", "D", "i", "s", "h">>,
         <<"B", "o", "\n", "\n", "2", ":", "0", "0", " ", "P", "M", " ", "-", " ", "1", "0", ":", "0", "0", " ", "P", "M">>,
         <<"B", "o", "\n", "\n", "2", ":", "0", "0", " ", "P", "M", " ", "-", " ", "1", "0", ":", "0", "0", " ", "P", "M">> >>,
      << <<"M", "a", "n", "a", "g", "e", "r">>,
         <<"C", "y", "\n", "\n", "2", "5", ":", "0", "0", " ", "A", "M", " ", "-", " ", "1", ":", "0", "0", " ", "P", "M", "\n", "\n", "D", "i", "\n", "\n", "1", "0", ":", "0", "0", " ", "P", "M", " ", "-", " ", "6", ":", "0", "0", " ", "X", "X", "\n", "\n", "E", "d">>,
         <<"D", "i", "\n", "\n", "1", ":", "5", "9", " ", "P", "M", " ", "-", " ", "1", "0", ":", "0", "0", " ", "P", "M">> >>,
      << <<" ", "C", "A", "S", "H", "I", "E", "R", "\n">>,
         <<"A", "l", "\n", "\n", "b", "a", "d", "\n", "\n", "B", "o", "\n", "\n", "5", ":", "3", "0", " ", "A", "M", " ", "-", " ", "1", ":", "0", "0", " ", "P", "M">>,
         <<"A", "l", "\n", "\n", "\n", "5", ":", "2", "9", " ", "A", "M", "-", "1", ":", "0", "0", " ", "P", "M", "\n", "\n", "C", "y", "\n", "\n", "4", ":", "5", "9", " ", "a", "m", " ", "-", " ", "1", ":", "0", "0", " ", "p", "m">> >>,
      << <<"C", "a", "s", "h", "i", "e", "r">>,
         <<"A", "l", "\n", "\n", "6", ":", "0", "0", " ", "A", "M", " ", "-", " ", "2", ":", "0", "0", " ", "P", "M", "\n", "\n", "B", "o", "\n", "\n", "7", ":", "0", "0", " ", "A", "M", " ", "-", " ", "3", ":", "0", "0", " ", "P", "M">>,
         <<"B", "o", "\n", "\n", "7", ":", "0", "0", " ", "A", "M", " ", "-", " ", "3", ":", "0", "0", " ", "P", "M", "\n", "\n", "A", "l", "\n", "\n", "6", ":", "0", "0", " ", "A", "M", " ", "-", " ", "2", ":", "0", "0", " ", "P", "M">> >> }

Header_TwoDates == << <<"T", "a", "s", "k">>, <<"F", "r", "i", " ", "0", "7", "/", "0", "4">>, <<"S", "a", "t", " ", "0", "7", "/", "0", "5">> >>
Header_OneDate == << <<>>, <<"N", "o", "t", "e", "s">>, <<"0", "7", "/", "0", "4">> >>
Header_NoDate == << <<"T", "a", "s", "k">>, <<>>, <<"T", "o", "t", "a", "l">> >>

HeaderCell(loc, with_year) ==
    LocationMarker(loc)
    \o (IF with_year THEN <<" ", "0", "6", "/", "2", "9", "/", "2", "0", "2", "5", " ", "-", " ", "0", "7", "/", "0", "5", "/", "2", "0", "2", "5">> ELSE <<>>)

Unopenable == [openable |-> FALSE]

RowLists == UNION {[1..n -> RowTemplates] : n \in 0..MaxRows}

Workbooks(loc) ==
    {[openable |-> TRUE, a1 |-> HeaderCell(loc, sk[1]), header |-> sk[2], rows |-> rows] :
        sk \in {<<TRUE, Header_TwoDates>>, <<FALSE, Header_OneDate>>,
                <<TRUE, Header_NoDate>>},
        rows \in RowLists}
    \cup {Unopenable}

\* The module has been loaded and no upload has been handled
ModuleLoaded ==
    /\ CURRENT_OUTPUTS = <<>>
    /\ uploads = 0
    /\ input_files = {}
    /\ flashed = <<>>

NotStarted ==
    /\ pc = "start"
    /\ date_columns = <<>>
    /\ date_labels = <<>>
    /\ file_counter = 0
    /\ row_idx = 0
    /\ shift_data = <<>>
    /\ total_assignments_found = 0
    /\ mapped_assignments_found = 0
    /\ unmapped_roles_list = {}
    /\ outputs = <<>>
    /\ save_errors = {}

Init ==
    /\ location \in {"ikes", "southside"}
    /\ wb \in Workbooks(location)
    /\ NotStarted
    /\ ModuleLoaded
    /\ call = [fn |-> "none"]
    /\ ret = [pending |-> TRUE]
    /\ gen = [kind |-> "table"]

Spec == Init /\ [][Next]_vars

-----------------------------------------------------------------------------
(* Calls of parse_time and get_category on generated arguments *)

Pending == [pending |-> TRUE]
NoCall == [fn |-> "none"]

MaxHourField == 25
MaxMinuteField == 60

AM == <<"A", "M">>
PM == <<"P", "M">>

TwoDigits(n) == <<DigitSeq[(n \div 10) + 1], DigitSeq[(n % 10) + 1]>>

\* The text of a time: the hour with or without its leading zero, ":", the
\* minute, optional blanks, the meridiem marker
TimeText(g) ==
    g.lead \o (IF g.pad \/ g.hour >= 10 THEN TwoDigits(g.hour)
               ELSE <<DigitSeq[g.hour + 1]>>)
           \o <<":">> \o TwoDigits(g.minute) \o g.space \o g.meridiem \o g.lead

TimeGens ==
    {g \in [kind : {"time"}, hour : 1..MaxHourField, pad : BOOLEAN,
            minute : 0..MaxMinuteField, space : {<<>>, <<" ">>},
            meridiem : {AM, PM, <<"a", "m">>, <<"P", "m">>},
            lead : {<<>>, <<" ">>}] :
        g.pad => g.hour < 10}

\* Normalized role texts: keys of the tables, the roles of test_fuzzy.py,
\* roles that match several rules and roles that match none
BaseRoles ==
    { <<"c", "a", "s", "h", "i", "e", "r">>,
      <<"p", "i", "z", "z", "a", " ", "c", "a", "s", "h", "i", "e", "r">>,
      <<"d", "e", "l", "i", " ", "c", "a", "s", "h", "i", "e", "r">>,
      <<"a", "m", " ", "p", "a", "s", "t", "a">>,
      <<"p", "a", "s", "t", "a", " ", "u", "t", "i", "l", "i", "t", "y">>,
      <<"f", "l", "i", "p", "s", " ", "p", "r", "o", "d", "u", "c", "t", "i", "o", "n", " ", "c", "o", "o", "k">>,
      <<"u", "n", "k", "n", "o", "w", "n", " ", "r", "o", "l", "e">>,
      <<"s", "c", "h", "e", "d", "u", "l", "e", "d", " ", "e", "l", "s", "e", "w", "h", "e", "r", "e">>,
      <<"r", "a", "n", "d", "o", "m", " ", "p", "i", "z", "z", "a", " ", "p", "l", "a", "c", "e">>,
      <<"m", "a", "n", "a", "g", "e", "r">>,
      <<"s", "o", "m", "e", " ", "p", "a", "s", "t", "a", " ", "d", "i", "s", "h">>,
      <<"n", "e", "w", " ", "d", "e", "s", "s", "e", "r", "t", " ", "i", "t", "e", "m">>,
      <<"w", "e", "i", "r", "d", " ", "d", "e", "l", "i", " ", "t", "e", "x", "t">>,
      <<"r", "a", "n", "d", "o", "m", " ", "c", "o", "l", "d", " ", "p", "r", "e", "p", " ", "s", "t", "r", "i", "n", "g">>,
      <<"c", "l", "e", "a", "n", "i", "n", "g", " ", "u", "t", "i", "l", "i", "t", "y">>,
      <<"m", "y", " ", "p", "r", "o", "d", "u", "c", "t", "i", "o", "n", " ", "c", "o", "o", "k">>,
      <<"s", "o", "m", "e", " ", "f", "l", "i", "p", "s", " ", "c", "o", "o", "k">>,
      <<>> }

\* Texts that do not have the shape of a time
FreeTexts ==
    { <<"f", "o", "o">>,
      <<>>,
      <<"6", ":", "0", "0">>,
      <<"6", ":", "0", "0", " ", "X", "M">>,
      <<"6", ":", "5", " ", "A", "M">>,
      <<":", "3", "0", " ", "P", "M">>,
      <<"n", "o", "o", "n">>,
      <<"6", ".", "0", "0", " ", "A", "M">>,
      <<"1", "2", "3", ":", "0", "0", " ", "A", "M">>,
      <<"6", ":", "0", "0", " ", "A">>,
      <<"A", "M", " ", "6", ":", "0", "0">> }

TextGens == [kind : {"text"}, text : FreeTexts]

\* A role label as a sheet holds it: the normalized text in some letter
\* case, possibly broken by a line break after its first character and
\* surrounded by white space
Cased(s, c) ==
    IF c = "upper" THEN upper(s)
    ELSE IF c = "title" /\ s # <<>> THEN <<UpperChar(s[1])>> \o Tail(s)
    ELSE s

RoleText(g) ==
    LET s == Cased(g.base, g.case)
        b == IF g.break /\ Len(s) >= 2 THEN <<s[1], "\n">> \o Tail(s) ELSE s
    IN  g.pre \o b \o g.post

RoleGens ==
    [kind : {"role"}, base : BaseRoles, case : {"lower", "upper", "title"},
     break : BOOLEAN, pre : {<<>>, <<" ">>, <<"\n", " ">>},
     post : {<<>>, <<" ", "\n">>}, loc : {"ikes", "southside", "other"}]

IdleProcess ==
    /\ pc = "idle"
    /\ location = "ikes"
    /\ wb = [openable |-> FALSE]
    /\ date_columns = <<>>
    /\ date_labels = <<>>
    /\ file_counter = 0
    /\ row_idx = 0
    /\ shift_data = <<>>
    /\ total_assignments_found = 0
    /\ mapped_assignments_found = 0
    /\ unmapped_roles_list = {}
    /\ outputs = <<>>
    /\ save_errors = {}

InitFn ==
    /\ gen \in TimeGens \cup TextGens \cup RoleGens
    /\ call = IF gen.kind = "time" THEN [fn |-> "parse_time", time_str |-> TimeText(gen)]
              ELSE IF gen.kind = "text" THEN [fn |-> "parse_time", time_str |-> gen.text]
              ELSE [fn |-> "get_category", role |-> RoleText(gen), location |-> gen.loc]
    /\ ret = Pending
    /\ IdleProcess
    /\ ModuleLoaded

Call_parse_time ==
    /\ call.fn = "parse_time"
    /\ ret = Pending
    /\ ret' = parse_time(call.time_str)
    /\ UNCHANGED <<call, gen, procVars, webVars>>

Call_get_category ==
    /\ call.fn = "get_category"
    /\ ret = Pending
    /\ ret' = get_category(call.role, call.location)
    /\ UNCHANGED <<call, gen, procVars, webVars>>

NextFn == Call_parse_time \/ Call_get_category

SpecFn == InitFn /\ [][NextFn]_vars

-----------------------------------------------------------------------------
(* parse_time on well-formed times *)

MinutesPerDay == 24 * MinutesPerHour

WellFormedTime(g) ==
    g.kind = "time" /\ g.hour \in 1..12 /\ g.minute \in 0..59

\* hour' of the time g describes
ExpectedHour(g) ==
    IF upper(g.meridiem) = AM THEN (IF g.hour = 12 THEN 0 ELSE g.hour)
    ELSE (IF g.hour = 12 THEN 12 ELSE g.hour + 12)

\* C2: on every valid 12-hour time text H:MM AM/PM parse_time returns
\* hour' + minute/60 (here in minutes), with hour' = 0 for 12 AM, 12 for
\* 12 PM, hour + 12 for another PM hour and hour for another AM hour, and
\* the value lies in [0, 24).
Thm_C2_ParseTimeValid ==
    (call.fn = "parse_time" /\ ret # Pending /\ WellFormedTime(gen)) =>
        /\ ret = Some(MinutesPerHour * ExpectedHour(gen) + gen.minute)
        /\ 0 <= ret.value /\ ret.value < MinutesPerDay

Wit_C2_ParseTimeValid ==
    /\ call.fn = "parse_time" /\ ret # Pending
    /\ gen.kind = "time" /\ gen.hour = 12 /\ gen.minute = 30
    /\ upper(gen.meridiem) = AM
    /\ ret = Some(30)

\* C3: parse_time returns None for every input that is not a well-formed
\* 12-hour time, an out-of-range hour such as "25:00 AM" and free text such
\* as "foo" included.
Cex_C3_MalformedIsNone ==
    (call.fn = "parse_time" /\ ret # Pending /\ ~WellFormedTime(gen)) =>
        ret = None

-----------------------------------------------------------------------------
(* get_category *)

PrimaryMapping(loc) == IF loc = "southside" THEN SOUTHSIDE_MAPPING ELSE IKES_MAPPING
KeywordRules(loc) == IF loc = "southside" THEN SOUTHSIDE_KEYWORDS ELSE IKES_KEYWORDS

Returned_get_category ==
    call.fn = "get_category" /\ ret # Pending /\ gen.loc \in {"ikes", "southside"}

\* Rule i of rules is the first one whose keyword occurs in text
FirstMatch(rules, text, i) ==
    /\ Contains(text, rules[i][1])
    /\ \A j \in 1..(i - 1) : ~Contains(text, rules[j][1])

\* C4: for both locations, when the normalized role is a key of the
\* location's exact role-to-station mapping, the result is that mapping's
\* station, also when the role contains the keyword of a fuzzy rule that
\* names another station.
Thm_C4_ExactWins ==
    (Returned_get_category /\ HasKey(PrimaryMapping(gen.loc), gen.base)) =>
        ret = Some(Get(PrimaryMapping(gen.loc), gen.base))

Wit_C4_ExactWins ==
    /\ Returned_get_category
    /\ gen.loc = "ikes" /\ gen.case = "upper" /\ gen.break /\ gen.pre # <<>>
    /\ gen.base = <<"d", "e", "l", "i", " ", "c", "a", "s", "h", "i", "e", "r">>
    /\ \E i \in DOMAIN IKES_KEYWORDS :
            /\ Contains(gen.base, IKES_KEYWORDS[i][1])
            /\ IKES_KEYWORDS[i][2] # "CASHIER"
    /\ ret = Some("CASHIER")

\* C5: when the normalized role is in no exact mapping, the result is the
\* station of the first rule, in declaration order, whose keyword is a
\* substring of the normalized role, whatever the length of the keyword of
\* a later rule that matches too; when no rule matches it is None.
Thm_C5_FirstRuleWins ==
    (/\ Returned_get_category
     /\ ~HasKey(PrimaryMapping(gen.loc), gen.base)
     /\ ~HasKey(FALLBACK_MAPPINGS, gen.base)) =>
        LET rules == KeywordRules(gen.loc)
        IN  \/ \E i \in DOMAIN rules :
                    FirstMatch(rules, gen.base, i) /\ ret = Some(rules[i][2])
            \/ /\ \A i \in DOMAIN rules : ~Contains(gen.base, rules[i][1])
               /\ ret = None

Wit_C5_FirstRuleWins ==
    /\ Returned_get_category
    /\ gen.loc = "ikes"
    /\ gen.base = <<"f", "l", "i", "p", "s", " ", "p", "r", "o", "d", "u", "c",
                    "t", "i", "o", "n", " ", "c", "o", "o", "k">>
    /\ \E i, j \in DOMAIN IKES_KEYWORDS :
            /\ i < j
            /\ FirstMatch(IKES_KEYWORDS, gen.base, i)
            /\ Contains(gen.base, IKES_KEYWORDS[j][1])
            /\ Len(IKES_KEYWORDS[j][1]) > Len(IKES_KEYWORDS[i][1])
            /\ IKES_KEYWORDS[j][2] # IKES_KEYWORDS[i][2]
            /\ ret = Some(IKES_KEYWORDS[i][2])

\* C6: in either location a role that is absent from the primary mapping and
\* present in FALLBACK_MAPPINGS resolves to the supplementary station,
\* before any keyword rule is consulted.
Cex_C6_FallbackEveryLocation ==
    (/\ Returned_get_category
     /\ ~HasKey(PrimaryMapping(gen.loc), gen.base)
     /\ HasKey(FALLBACK_MAPPINGS, gen.base)) =>
        ret = Some(Get(FALLBACK_MAPPINGS, gen.base))

\* The generated role text normalizes to the text it was built from
RoleTextNormalizes ==
    call.fn = "get_category" => role_lower(call.role) = gen.base

-----------------------------------------------------------------------------
(* Workbooks with one data row whose cell holds one generated start time *)

StartGens ==
    {g \in TimeGens :
        g.pad = FALSE /\ g.lead = <<>> /\ g.space = <<" ">> /\ g.meridiem \in {AM, PM}}

Name_Al == <<"A", "l">>
End_2PM == <<"2", ":", "0", "0", " ", "P", "M">>
Role_Cashier == <<"C", "a", "s", "h", "i", "e", "r">>

\* The text "Al", a blank line, "<start> - 2:00 PM"
StartCell(g) ==
    Name_Al \o <<"\n", "\n">> \o TimeText(g) \o <<" ", "-", " ">> \o End_2PM

StartWorkbook(loc, g) ==
    [openable |-> TRUE, a1 |-> HeaderCell(loc, FALSE), header |-> Header_OneDate,
     rows |-> << <<Role_Cashier, <<>>, StartCell(g)>> >>]

InitTimes ==
    /\ location \in {"ikes", "southside"}
    /\ \/ /\ gen \in StartGens
          /\ wb = StartWorkbook(location, gen)
       \/ /\ gen = [kind |-> "file"]
          /\ wb \in {Unopenable,
                     [openable |-> TRUE, a1 |-> HeaderCell(location, TRUE),
                      header |-> Header_NoDate, rows |-> <<>>]}
    /\ NotStarted
    /\ ModuleLoaded
    /\ call = NoCall
    /\ ret = Pending

SpecTimes == InitTimes /\ [][Next]_vars

\* The start time g describes, in minutes, and the entry of its assignment
StartMinutes(g) == MinutesPerHour * ExpectedHour(g) + g.minute
StartEntry(g) ==
    Name_Al \o <<"\n">> \o TimeText(g) \o <<" ", "-", " ">> \o End_2PM

\* The only data row has been scanned
StartRowScanned ==
    gen.kind = "time" /\ WellFormedTime(gen) /\ pc = "rows" /\ row_idx = 1

\* Every list of the grid is empty
GridIsEmpty ==
    \A i \in DOMAIN shift_data : \A c \in DOMAIN shift_data[i] :
        shift_data[i][c] = <<>>

\* The grid holds the entry of g in the list of shift number s (0-based)
\* of CASHIER and nothing else
OnlyInShift(s) ==
    \A i \in DOMAIN shift_data : \A c \in DOMAIN shift_data[i] :
        shift_data[i][c] =
            IF i = s + 1 /\ c = "CASHIER" THEN <<StartEntry(gen)>> ELSE <<>>

\* C7: Ikes bucketing is total: every start hour h in [0, 24) gets exactly
\* one shift index, 0 iff 5 <= h < 14, 1 iff 14 <= h < 22, 2 (overnight,
\* wrapping midnight) iff h >= 22 or h < 5, and never no bucket.
Thm_C7_IkesBucketingTotal ==
    (StartRowScanned /\ location = "ikes") =>
        LET h == StartMinutes(gen)
        IN  /\ Len(shift_data) = 3
            /\ OnlyInShift(0) <=> (5 * MinutesPerHour <= h /\ h < 14 * MinutesPerHour)
            /\ OnlyInShift(1) <=> (14 * MinutesPerHour <= h /\ h < 22 * MinutesPerHour)
            /\ OnlyInShift(2) <=> (h >= 22 * MinutesPerHour \/ h < 5 * MinutesPerHour)
            /\ OnlyInShift(0) \/ OnlyInShift(1) \/ OnlyInShift(2)
            /\ mapped_assignments_found = 1

Wit_C7_IkesBucketingTotal ==
    /\ StartRowScanned /\ location = "ikes"
    /\ StartMinutes(gen) = 4 * MinutesPerHour + 59
    /\ OnlyInShift(2)

\* C8: Southside bucketing takes the first window with lower <= h < upper
\* (windows [5.5, 15) and [15, 23.5)); for a start hour outside both
\* (h < 5.5 or h >= 23.5) there is no bucket and the assignment is in no
\* cell of the grid.
Thm_C8_SouthsideWindows ==
    (StartRowScanned /\ location = "southside") =>
        LET h == StartMinutes(gen)
        IN  /\ Len(shift_data) = 2
            /\ (HalfHours(11) <= h /\ h < HalfHours(30)) => OnlyInShift(0)
            /\ (HalfHours(30) <= h /\ h < HalfHours(47)) => OnlyInShift(1)
            /\ (h < HalfHours(11) \/ h >= HalfHours(47)) =>
                    (GridIsEmpty /\ mapped_assignments_found = 0)
            /\ total_assignments_found = 1

Wit_C8_SouthsideWindows ==
    /\ StartRowScanned /\ location = "southside"
    /\ StartMinutes(gen) = HalfHours(47)
    /\ GridIsEmpty
    /\ total_assignments_found = 1

-----------------------------------------------------------------------------
(* The grid and the counters while the rows of one date column are scanned *)

Cell_JaneSingleBreak == <<"J", "a", "n", "e", " ", "D", "o", "e", "\n", "6", ":", "0", "0", " ", "A", "M", " ", "-", " ", "2", ":", "0", "0", " ", "P", "M">>
Cell_JaneBlankLine == <<"J", "a", "n", "e", " ", "D", "o", "e", "\n", "\n", "6", ":", "0", "0", " ", "A", "M", " ", "-", " ", "2", ":", "0", "0", " ", "P", "M">>
Entry_Jane == <<"J", "a", "n", "e", " ", "D", "o", "e", "\n", "6", ":", "0", "0", " ", "A", "M", " ", "-", " ", "2", ":", "0", "0", " ", "P", "M">>
Label_0704 == <<"0", "7", "/", "0", "4">>
Role_Unknown == <<"U", "n", "k", "n", "o", "w", "n", " ", "R", "o", "l", "e">>

\* The cell of data row r (1-based) in the date column being processed
CurrentCell(r) == wb.rows[r][date_columns[file_counter] + 1]

\* The first data row has role "Cashier", a station of the layout, and its
\* cell in the current date column, labelled 07/04, holds text
CashierRowScanned(text) ==
    /\ pc = "rows" /\ row_idx = 1
    /\ wb.rows[1][1] = Role_Cashier
    /\ CurrentCell(1) = text
    /\ SubSeq(date_labels[file_counter], 1, 5) = Label_0704
    /\ get_category(str(wb.rows[1][1]), location) # None
    /\ FoundLayout(get_category(str(wb.rows[1][1]), location),
                   get_stations_layout(location))

\* The list of the shift whose window contains 6:00 AM, under the station of
\* the first data row, is exactly the entry of Jane Doe
JaneInMorningShift ==
    LET station == get_category(str(wb.rows[1][1]), location).value
        shifts == Shifts(location)
    IN  /\ \E i \in DOMAIN shifts :
                shifts[i].lower <= 6 * MinutesPerHour /\ 6 * MinutesPerHour < shifts[i].upper
        /\ \A i \in DOMAIN shifts :
                (shifts[i].lower <= 6 * MinutesPerHour /\ 6 * MinutesPerHour < shifts[i].upper)
                    => shift_data[i][station] = <<Entry_Jane>>

\* C1 as stated: the cell holds "Jane Doe", one single line break,
\* "6:00 AM - 2:00 PM", and the grid then holds exactly the entry
\* "Jane Doe\n6:00 AM - 2:00 PM" in the shift that contains 6:00 AM.
Cex_C1_SingleLineBreak ==
    CashierRowScanned(Cell_JaneSingleBreak) => JaneInMorningShift

\* C1, amended: when the cell holds "Jane Doe", a blank line (two line
\* breaks), "6:00 AM - 2:00 PM", the grid of that date holds, in the shift
\* whose window contains 6:00 AM, under the station of the role, exactly the
\* one entry "Jane Doe\n6:00 AM - 2:00 PM".
Thm_C1_EndToEnd ==
    CashierRowScanned(Cell_JaneBlankLine) => JaneInMorningShift

Wit_C1_EndToEnd ==
    /\ CashierRowScanned(Cell_JaneBlankLine)
    /\ date_labels[file_counter] = Label_0704
    /\ shift_data[1]["CASHIER"] = <<Entry_Jane>>
    /\ mapped_assignments_found = 1

\* C9: at every point of the processing of a date column the grid has one
\* mapping per configured shift and each mapping has a key for every station
\* of the layout, also when the column holds no assignment; no key is added
\* or removed after the initialisation.
Thm_C9_GridComplete ==
    pc = "rows" =>
        /\ Len(shift_data) = Len(Shifts(location))
        /\ \A i \in DOMAIN shift_data :
                DOMAIN shift_data[i] = LayoutStations(get_stations_layout(location))

Wit_C9_GridComplete ==
    /\ pc = "rows" /\ location = "ikes"
    /\ wb.rows # <<>> /\ row_idx = Len(wb.rows)
    /\ total_assignments_found = 0
    /\ GridIsEmpty
    /\ Len(get_stations_layout(location)) > 1
    /\ \A i \in DOMAIN shift_data :
            DOMAIN shift_data[i] = LayoutStations(get_stations_layout(location))

\* The number of valid (name, time range) pairs of a cell
ValidPairCount(cell_val) ==
    LET pairs == CandidatePairs(Assignments(cell_val))
    IN  IF Falsy(cell_val) THEN 0
        ELSE Cardinality({k \in DOMAIN pairs : PairIsValid(pairs[k])})

\* C10: a row whose role get_category cannot classify and that is not an
\* ignored role, with k valid pairs in the cell of the date column, adds k
\* to total and 0 to mapped; with k >= 1 its role label joins the unmapped
\* set, with k = 0 it does not.
Thm_C10_UnmappedAccounting ==
    [][(/\ pc = "rows" /\ row_idx' = row_idx + 1
        /\ get_category(str(wb.rows[row_idx + 1][1]), location) = None
        /\ ~IsIgnored(wb.rows[row_idx + 1][1])) =>
            LET role == wb.rows[row_idx + 1][1]
                k == ValidPairCount(CurrentCell(row_idx + 1))
            IN  /\ total_assignments_found' = total_assignments_found + k
                /\ mapped_assignments_found' = mapped_assignments_found
                /\ shift_data' = shift_data
                /\ k >= 1 => unmapped_roles_list' = unmapped_roles_list \cup {str(role)}
                /\ k = 0 => unmapped_roles_list' = unmapped_roles_list]_vars

Wit_C10_UnmappedAccounting ==
    /\ pc = "rows" /\ row_idx = 1
    /\ wb.rows[1][1] = Role_Unknown
    /\ get_category(str(wb.rows[1][1]), location) = None
    /\ ValidPairCount(CurrentCell(1)) = 1
    /\ total_assignments_found = 1
    /\ mapped_assignments_found = 0
    /\ unmapped_roles_list = {Role_Unknown}

-----------------------------------------------------------------------------
(* Ignored roles and stations outside the layout *)

Role_ScheduledElsewhere == <<"S", "c", "h", "e", "d", "u", "l", "e", "d", " ", "E", "l", "s", "e", "w", "h", "e", "r", "e">>

\* The step scans one data row of the current date column
RowStep == pc = "rows" /\ row_idx' = row_idx + 1

Role_Manager == <<"M", "a", "n", "a", "g", "e", "r">>
Role_SomePastaDish == <<"S", "o", "m", "e", " ", "P", "a", "s", "t", "a", " ", "D", "i", "s", "h">>

\* get_category gives the role a station that no row group of the layout
\* of the location holds
OutsideLayout(role, loc) ==
    /\ get_category(str(role), loc) # None
    /\ get_category(str(role), loc).value # ""
    /\ get_category(str(role), loc).value
            \notin LayoutStations(get_stations_layout(loc))

\* C12: a row whose role classifies to a station that is not in the layout
\* of the location appends no entry to any list of the grid; its k valid
\* assignments add k to total and nothing to mapped.
Thm_C12_OutsideLayoutExcluded ==
    [][(/\ RowStep
        /\ OutsideLayout(wb.rows[row_idx + 1][1], location)
        /\ ~IsIgnored(wb.rows[row_idx + 1][1])) =>
            /\ shift_data' = shift_data
            /\ total_assignments_found' =
                    total_assignments_found + ValidPairCount(CurrentCell(row_idx + 1))
            /\ mapped_assignments_found' = mapped_assignments_found]_vars

\* "Manager" is NONE at Ike's, which the layout leaves out: the valid pair
\* of its cell in the second date column is counted in total only
Wit_C12_OutsideLayoutExcluded ==
    /\ pc = "rows" /\ row_idx = 1
    /\ location = "ikes"
    /\ file_counter = 2
    /\ wb.rows[1][1] = Role_Manager
    /\ OutsideLayout(wb.rows[1][1], location)
    /\ ValidPairCount(CurrentCell(1)) = 1
    /\ total_assignments_found = 1
    /\ mapped_assignments_found = 0
    /\ GridIsEmpty

\* Data row r (1-based) has a role whose station is outside the layout and
\* holds at least one valid assignment in the current date column
OutsideLayoutRow(r) ==
    /\ OutsideLayout(wb.rows[r][1], location)
    /\ ~IsIgnored(wb.rows[r][1])
    /\ ValidPairCount(CurrentCell(r)) >= 1

\* C13 as stated: when every row of the date column has been scanned, the
\* label of each role whose station is outside the layout and that has at
\* least one valid assignment in the column is in the unmapped set.
Cex_C13_OutsideLayoutInUnmappedSet ==
    (pc = "rows" /\ row_idx = Len(wb.rows)) =>
        \A r \in 1..Len(wb.rows) :
            OutsideLayoutRow(r) => str(wb.rows[r][1]) \in unmapped_roles_list

\* C13, amended: a role whose station is outside the layout is recorded by
\* the counts only.  Its row leaves the unmapped set unchanged and its label
\* outside that set, the gap between total and mapped grows by the number
\* of its valid assignments, and the scan goes on with the next row.
Thm_C13_OutsideLayoutCountsOnly ==
    [][(/\ RowStep
        /\ OutsideLayout(wb.rows[row_idx + 1][1], location)
        /\ ~IsIgnored(wb.rows[row_idx + 1][1])) =>
            /\ unmapped_roles_list' = unmapped_roles_list
            /\ str(wb.rows[row_idx + 1][1]) \notin unmapped_roles_list'
            /\ total_assignments_found' - mapped_assignments_found' =
                    (total_assignments_found - mapped_assignments_found)
                    + ValidPairCount(CurrentCell(row_idx + 1))
            /\ pc' = "rows"
            /\ row_idx' <= Len(wb.rows)]_vars

\* At Southside "Some Pasta Dish" is LITTLE ITALY, outside the layout: after
\* its row and the row that follows the unmapped set is still empty
Wit_C13_OutsideLayoutCountsOnly ==
    /\ pc = "rows" /\ row_idx = 2
    /\ location = "southside"
    /\ wb.rows[1][1] = Role_SomePastaDish
    /\ OutsideLayoutRow(1)
    /\ wb.rows[2][1] = Role_Cashier
    /\ total_assignments_found = 2
    /\ mapped_assignments_found = 1
    /\ unmapped_roles_list = {}

-----------------------------------------------------------------------------
(* Workbooks with one data row whose cell is built from a list of blocks *)

MaxBlocks == 4

\* The blocks a generated cell is made of: two names, two well-formed time
\* ranges, a range whose end is no time of day ("2:00 XX") and a range
\* whose start is no time of day ("6:00 XM").  shown is the range as an
\* entry prints it.  Every start that is a time falls in the first shift of
\* both locations.
CellBlocks ==
    << [kind |-> "name", text |-> <<"A", "l">>],
       [kind |-> "name", text |-> <<"B", "o">>],
       [kind |-> "range", text |-> <<"6", ":", "0", "0", " ", "A", "M", " ", "-", " ", "2", ":", "0", "0", " ", "P", "M">>,
       shown |-> <<"6", ":", "0", "0", " ", "A", "M", " ", "-", " ", "2", ":", "0", "0", " ", "P", "M">>,
       start_is_time |-> TRUE, end_is_time |-> TRUE],
       [kind |-> "range", text |-> <<"7", ":", "3", "0", " ", "a", "m", "-", "3", ":", "0", "0", " ", "p", "m">>,
       shown |-> <<"7", ":", "3", "0", " ", "a", "m", " ", "-", " ", "3", ":", "0", "0", " ", "p", "m">>,
       start_is_time |-> TRUE, end_is_time |-> TRUE],
       [kind |-> "range", text |-> <<"6", ":", "3", "0", " ", "A", "M", " ", "-", " ", "2", ":", "0", "0", " ", "X", "X">>,
       shown |-> <<"6", ":", "3", "0", " ", "A", "M", " ", "-", " ", "2", ":", "0", "0", " ", "X", "X">>,
       start_is_time |-> TRUE, end_is_time |-> FALSE],
       [kind |-> "range", text |-> <<"6", ":", "0", "0", " ", "X", "M", " ", "-", " ", "2", ":", "0", "0", " ", "P", "M">>,
       shown |-> <<"6", ":", "0", "0", " ", "X", "M", " ", "-", " ", "2", ":", "0", "0", " ", "P", "M">>,
       start_is_time |-> FALSE, end_is_time |-> TRUE] >>

BlockLists == UNION {[1..n -> DOMAIN CellBlocks] : n \in 0..MaxBlocks}

\* Runs of two and of three line breaks
Separators == {<<"\n", "\n">>, <<"\n", "\n", "\n">>}

CellGens == [kind : {"cell"}, blocks : BlockLists, sep : Separators]

\* The blocks of g joined by its separator
RECURSIVE JoinBlocks(_, _)
JoinBlocks(blocks, sep) ==
    IF blocks = <<>> THEN <<>>
    ELSE IF Len(blocks) = 1 THEN CellBlocks[blocks[1]].text
    ELSE CellBlocks[blocks[1]].text \o sep \o JoinBlocks(Tail(blocks), sep)

CellWorkbook(loc, g) ==
    [openable |-> TRUE, a1 |-> HeaderCell(loc, FALSE), header |-> Header_OneDate,
     rows |-> << <<Role_Cashier, <<>>, JoinBlocks(g.blocks, g.sep)>> >>]

InitCells ==
    /\ location \in {"ikes", "southside"}
    /\ \/ /\ gen \in CellGens
          /\ wb = CellWorkbook(location, gen)
       \/ /\ gen = [kind |-> "file"]
          /\ wb \in {Unopenable,
                     [openable |-> TRUE, a1 |-> HeaderCell(location, TRUE),
                      header |-> Header_NoDate, rows |-> <<>>]}
    /\ NotStarted
    /\ ModuleLoaded
    /\ call = NoCall
    /\ ret = Pending

SpecCells == InitCells /\ [][Next]_vars

\* The only data row, with the generated cell, has been scanned
CellRowScanned == gen.kind = "cell" /\ pc = "rows" /\ row_idx = 1

\* Block number n (1-based) of the generated cell
Block(n) == CellBlocks[gen.blocks[n]]

\* The entry of the pair (block 2k - 1, block 2k) when block 2k is a range
PairEntry(k) == Block(2 * k - 1).text \o <<"\n">> \o Block(2 * k).shown

\* Pair k of the generated cell passes the two checks of the loop body
PairPasses(k) ==
    PairIsValid([name |-> Block(2 * k - 1).text, time_range |-> Block(2 * k).text])

\* The entries of the pairs (b1, b2), (b3, b4), ... that satisfy Keep, in
\* the order of the pairs
EntriesOfPairs(Keep(_)) ==
    LET kept == SelectSeq([k \in 1..(Len(gen.blocks) \div 2) |-> k], Keep)
    IN  [j \in DOMAIN kept |-> PairEntry(kept[j])]

\* The grid holds entries in the first shift of CASHIER and nothing else
CashierMorningIs(entries) ==
    \A i \in DOMAIN shift_data : \A c \in DOMAIN shift_data[i] :
        shift_data[i][c] = IF i = 1 /\ c = "CASHIER" THEN entries ELSE <<>>

\* C14: the blocks b1, b2, ... of a cell, separated by runs of two or more
\* line breaks, are paired (b1, b2), (b3, b4), ... in order; with an odd
\* number of blocks the last block is dropped; a discarded pair does not
\* shift the pairing of the blocks after it.  The grid therefore holds the
\* entries of exactly the passing pairs among those, in pair order, and
\* total counts them.
Thm_C14_PairsTwoAtATime ==
    CellRowScanned =>
        /\ CashierMorningIs(EntriesOfPairs(PairPasses))
        /\ total_assignments_found = Len(EntriesOfPairs(PairPasses))

\* Three blocks, with an odd one out: the pair ("Al", "Bo") is discarded, the
\* range that follows is the dropped last block and pairs with nothing
Wit_C14_PairsTwoAtATime ==
    /\ CellRowScanned
    /\ Len(gen.blocks) = 3
    /\ Block(1).kind = "name" /\ Block(2).kind = "name"
    /\ Block(3).kind = "range" /\ Block(3).start_is_time /\ Block(3).end_is_time
    /\ total_assignments_found = 0
    /\ GridIsEmpty

\* Block 2k is a time range whose two tokens are both 12-hour times of day
PairIsTimeRange(k) ==
    /\ Block(2 * k).kind = "range"
    /\ Block(2 * k).start_is_time
    /\ Block(2 * k).end_is_time

\* C15 as stated: a candidate pair yields an assignment if and only if its
\* time-range text is "<time> - <time>" with both tokens 12-hour times and
\* the start token parses; every other pair is discarded, changes no
\* counter and leaves the later pairs to be processed.  The grid and total
\* then hold exactly the pairs whose second block is such a range.
Cex_C15_BothTokensAreTimes ==
    CellRowScanned =>
        /\ CashierMorningIs(EntriesOfPairs(PairIsTimeRange))
        /\ total_assignments_found = Len(EntriesOfPairs(PairIsTimeRange))

-----------------------------------------------------------------------------
(* Order of the entries *)

Entry_Al == <<"A", "l", "\n", "6", ":", "0", "0", " ", "A", "M", " ", "-", " ", "2", ":", "0", "0", " ", "P", "M">>
Entry_Bo == <<"B", "o", "\n", "7", ":", "0", "0", " ", "A", "M", " ", "-", " ", "3", ":", "0", "0", " ", "P", "M">>

\* The entries of the valid pairs of a cell, in pair order
CellEntries(role, cell_val) ==
    IF Falsy(cell_val) THEN <<>>
    ELSE LET valid == ValidAssignments(role, cell_val)
         IN  [k \in DOMAIN valid |-> Entry(valid[k])]

\* sub picks elements of full without changing their order
IsOrderedPick(sub, full) ==
    \E f \in [DOMAIN sub -> DOMAIN full] :
        /\ \A j \in DOMAIN sub : full[f[j]] = sub[j]
        /\ \A j, k \in DOMAIN sub : j < k => f[j] < f[k]

\* C16: within the grid of a date every (shift, station) list only grows at
\* its end: a row step keeps the entries of the earlier rows, in their
\* order, in front, and what it appends are entries of the scanned cell in
\* the order of the pairs of that cell.
Thm_C16_ScanOrder ==
    [][RowStep =>
        LET entries == CellEntries(wb.rows[row_idx + 1][1], CurrentCell(row_idx + 1))
        IN  \A i \in DOMAIN shift_data : \A c \in DOMAIN shift_data[i] :
                LET old == shift_data[i][c]
                    new == shift_data'[i][c]
                IN  /\ Len(new) >= Len(old)
                    /\ SubSeq(new, 1, Len(old)) = old
                    /\ IsOrderedPick(SubSeq(new, Len(old) + 1, Len(new)), entries)]_vars

\* Two rows of CASHIER: the entry of the first row, then the two entries of
\* the cell of the second row in the order of its pairs
Wit_C16_ScanOrder ==
    /\ pc = "rows" /\ row_idx = 2
    /\ CurrentCell(1) = Cell_JaneBlankLine
    /\ shift_data[1]["CASHIER"] = <<Entry_Jane, Entry_Al, Entry_Bo>>

-----------------------------------------------------------------------------
(* Workbooks with a generated header row and a generated cell A1 *)

MaxHeaderCols == 3

\* The cells a generated second row is made of: an empty cell, a text
\* without a date, three texts with a two-digit/two-digit date and the
\* one-digit "7/4".  has_date and label say, for each, whether the text
\* holds an MM/DD pattern and which is the first.
HeaderCells ==
    << [text |-> <<>>, has_date |-> FALSE, label |-> <<>>],
       [text |-> <<"T", "a", "s", "k">>, has_date |-> FALSE, label |-> <<>>],
       [text |-> <<"F", "r", "i", " ", "0", "7", "/", "0", "4">>, has_date |-> TRUE, label |-> <<"0", "7", "/", "0", "4">>],
       [text |-> <<"0", "7", "/", "0", "5">>, has_date |-> TRUE, label |-> <<"0", "7", "/", "0", "5">>],
       [text |-> <<"7", "/", "4">>, has_date |-> FALSE, label |-> <<>>],
       [text |-> <<"W", "e", "e", "k", " ", "0", "6", "/", "2", "9", " ", "-", " ", "0", "7", "/", "0", "5">>, has_date |-> TRUE, label |-> <<"0", "6", "/", "2", "9">>] >>

\* What follows the location marker in A1, and the last run of four digits
\* of it
A1Suffixes ==
    << [text |-> <<>>, year |-> <<>>],
       [text |-> <<" ", "0", "6", "/", "2", "9", "/", "2", "0", "2", "5", " ", "-", " ", "0", "7", "/", "0", "5", "/", "2", "0", "2", "5">>, year |-> <<"2", "0", "2", "5">>],
       [text |-> <<" ", "1", "2", "/", "2", "9", "/", "2", "0", "2", "4", " ", "-", " ", "0", "1", "/", "0", "4", "/", "2", "0", "2", "5">>, year |-> <<"2", "0", "2", "5">>] >>

HeaderGens ==
    [kind : {"header"},
     cells : UNION {[1..n -> DOMAIN HeaderCells] : n \in 1..MaxHeaderCols},
     a1 : DOMAIN A1Suffixes]

\* One data row: the role and, in every other column, the same assignment
HeaderWorkbook(loc, g) ==
    [openable |-> TRUE,
     a1 |-> LocationMarker(loc) \o A1Suffixes[g.a1].text,
     header |-> [i \in DOMAIN g.cells |-> HeaderCells[g.cells[i]].text],
     rows |-> << [i \in DOMAIN g.cells |->
                    IF i = 1 THEN Role_Cashier ELSE Cell_JaneBlankLine] >>]

InitHeaders ==
    /\ location \in {"ikes", "southside"}
    /\ \/ /\ gen \in HeaderGens
          /\ wb = HeaderWorkbook(location, gen)
       \/ /\ gen = [kind |-> "file"]
          /\ wb = Unopenable
    /\ NotStarted
    /\ ModuleLoaded
    /\ call = NoCall
    /\ ret = Pending

SpecHeaders == InitHeaders /\ [][Next]_vars

\* The header row has been scanned
HeaderScanned == gen.kind = "header" /\ pc # "start"

\* The 0-based indices, left to right, of the generated header cells from
\* index first on whose text holds an MM/DD pattern
ColumnsWithDate(first) ==
    SelectSeq([i \in 1..Len(gen.cells) |-> i - 1],
              LAMBDA idx : idx >= first /\ HeaderCells[gen.cells[idx + 1]].has_date)

\* C17 as stated: a column of the second row is a date column if and only
\* if its text holds an MM/DD pattern, for every column of the row, and the
\* date columns keep the left-to-right order.
Cex_C17_EveryColumn ==
    HeaderScanned => date_columns = ColumnsWithDate(0)

\* C17, amended: the first column of the second row (the column of the
\* roles) is never a date column; every other column is a date column if
\* and only if its text holds an MM/DD pattern, and the date columns keep
\* the left-to-right order.
Thm_C17_DateColumns ==
    HeaderScanned => date_columns = ColumnsWithDate(1)

\* The first cell of the row holds "07/05" and is no date column; the third
\* cell is the only one
Wit_C17_DateColumns ==
    /\ HeaderScanned /\ pc = "rows"
    /\ Len(gen.cells) = 3
    /\ HeaderCells[gen.cells[1]].has_date
    /\ ~HeaderCells[gen.cells[2]].has_date
    /\ HeaderCells[gen.cells[3]].text = <<"F", "r", "i", " ", "0", "7", "/", "0", "4">>
    /\ date_columns = <<2>>

\* The label of a generated header cell under the year of the generated A1
ExpectedLabel(cell, a1) ==
    IF a1.year = <<>> THEN cell.label ELSE cell.label \o <<"/">> \o a1.year

\* C18: the label of a date column is the MM/DD match of its header cell,
\* followed by "/" and the year, the last run of four digits of A1; when A1
\* holds no run of four digits the label is the bare MM/DD.
Thm_C18_DateLabels ==
    HeaderScanned =>
        /\ Len(date_labels) = Len(date_columns)
        /\ \A k \in DOMAIN date_columns :
                date_labels[k] =
                    ExpectedLabel(HeaderCells[gen.cells[date_columns[k] + 1]],
                                  A1Suffixes[gen.a1])

\* A1 holds 2024 and then 2025: the labels carry 2025
Wit_C18_DateLabels ==
    /\ HeaderScanned /\ pc = "rows"
    /\ Len(findall_year(wb.a1)) = 2
    /\ findall_year(wb.a1)[1] # findall_year(wb.a1)[2]
    /\ date_labels = << <<"0", "6", "/", "2", "9", "/", "2", "0", "2", "5">>,
                        <<"0", "7", "/", "0", "5", "/", "2", "0", "2", "5">> >>

-----------------------------------------------------------------------------
(* What process_schedule_file returns *)

\* The call has returned because load_workbook raised
ReturnedCouldNotOpen == pc = "done" /\ ~wb.openable

\* The call has returned because the second row holds no date column
ReturnedNoDateColumns == pc = "done" /\ wb.openable /\ date_columns = <<>>

\* C19: the returned value tells the two failures apart: the value returned
\* for a workbook without date columns is the empty list, and the value
\* returned for a file that could not be opened differs from it.
Cex_C19_FailuresDistinct ==
    /\ ReturnedNoDateColumns => outputs = <<>>
    /\ ReturnedCouldNotOpen => outputs # <<>>

\* The number of date columns whose pass of the loop has ended
FinishedDates == IF pc = "done" THEN file_counter ELSE file_counter - 1

\* The finished date columns whose save did not raise, in column order
SavedDates ==
    SelectSeq([k \in 1..FinishedDates |-> k], LAMBDA k : k \notin save_errors)

\* C20: a save that raises is local to its date column: the columns after
\* it are still assembled and saved, and the list that is returned holds
\* exactly the file names of the columns whose save did not raise, in
\* column order.
Thm_C20_SaveFailureIsLocal ==
    (pc \in {"date", "rows", "done"} /\ date_columns # <<>>) =>
        /\ outputs = [j \in DOMAIN SavedDates |->
                        out_filename(date_labels[SavedDates[j]], location)]
        /\ pc = "done" => FinishedDates = Len(date_columns)

\* The save of the first of two date columns raised; the second was saved
\* and is the only file name returned
Wit_C20_SaveFailureIsLocal ==
    /\ pc = "done"
    /\ Len(date_columns) = 2
    /\ save_errors = {1}
    /\ date_labels[1] # date_labels[2]
    /\ outputs = <<out_filename(date_labels[2], location)>>

-----------------------------------------------------------------------------
(* upload: the request handler around process_schedule_file *)

MaxUploads == 2

\* str.endswith
EndsWith(s, suffix) ==
    Len(s) >= Len(suffix) /\ SubSeq(s, Len(s) - Len(suffix) + 1, Len(s)) = suffix

Ext_xlsx == <<".", "x", "l", "s", "x">>
Marker_Ikes == <<"G", "M", "U", " ", "D", "H", "-", "I", "k", "e">>
Marker_Southside == <<"G", "M", "U", " ", "D", "H", "-", "S", "o", "u", "t", "h", "s", "i", "d", "e">>

\* The location checked against the Southside marker whatever it is, unless
\* it is "ikes"
validate_file_location_TwoWay(file, loc) ==
    IF ~file.openable THEN FALSE
    ELSE LET header_val == IF Falsy(file.a1) THEN <<>> ELSE str(file.a1)
         IN  IF loc = "ikes" THEN Contains(header_val, Marker_Ikes)
             ELSE Contains(header_val, Marker_Southside)

\* validate_file_location: load_workbook raising gives False
validate_file_location(file, loc) ==
    IF ~file.openable THEN FALSE
    ELSE LET header_val == IF Falsy(file.a1) THEN <<>> ELSE str(file.a1)
         IN  IF loc = "ikes" THEN Contains(header_val, Marker_Ikes)
             ELSE IF loc = "southside" THEN Contains(header_val, Marker_Southside)
             ELSE FALSE

\* What A1 of an uploaded workbook holds: the marker of a location or none
A1Text(marker) ==
    IF marker = "none" THEN <<"W", "e", "e", "k", "l", "y", " ", "S", "c", "h", "e", "d", "u", "l", "e", " ", "2", "0", "2", "5">>
    ELSE HeaderCell(marker, marker = "southside")

\* The rows under the header of an uploaded workbook
UploadRow == <<Role_Cashier, Cell_JaneBlankLine, Cell_JaneBlankLine>>

\* The file of an upload request: not a workbook, or a workbook with that
\* A1 and one of the three header rows
UploadFile(g) ==
    IF g.book = "corrupt" THEN Unopenable
    ELSE [openable |-> TRUE,
          a1 |-> A1Text(g.marker),
          header |-> IF g.book = "two dates" THEN Header_TwoDates
                     ELSE IF g.book = "one date" THEN Header_OneDate
                     ELSE Header_NoDate,
          rows |-> <<UploadRow>>]

FileNames ==
    {<<>>, <<"s", "c", "h", "e", "d", "u", "l", "e", ".", "x", "l", "s">>,
     <<"s", "c", "h", "e", "d", "u", "l", "e", ".", "x", "l", "s", "x">>,
     <<"S", "c", "h", "e", "d", "u", "l", "e", ".", "X", "L", "S", "X">>}

\* The requests: the form field location, whether the request has a file
\* part, the name of the file and what the file holds
UploadGens ==
    [kind : {"upload"}, has_file : {TRUE}, filename : FileNames,
     location : {"ikes", "southside", "other"},
     marker : {"ikes", "southside", "none"},
     book : {"corrupt", "no date", "one date", "two dates"}]
    \cup [kind : {"upload"}, has_file : {FALSE}, filename : {<<>>},
          location : {"ikes", "southside", "other"},
          marker : {"none"}, book : {"corrupt"}]

\* The request passes the three checks made before the file is saved
RequestHasWorkbookName(g) ==
    /\ g.has_file
    /\ g.filename # <<>>
    /\ EndsWith(lower(g.filename), Ext_xlsx)

\* The local variables of process_schedule_file are gone
ProcessIdle ==
    /\ pc' = "idle"
    /\ location' = "ikes"
    /\ wb' = Unopenable
    /\ date_columns' = <<>>
    /\ date_labels' = <<>>
    /\ file_counter' = 0
    /\ row_idx' = 0
    /\ shift_data' = <<>>
    /\ total_assignments_found' = 0
    /\ mapped_assignments_found' = 0
    /\ unmapped_roles_list' = {}
    /\ outputs' = <<>>
    /\ save_errors' = {}

\* upload returns before it saves anything: no file part, an empty file
\* name or a name that does not end in .xlsx
UploadRejected ==
    /\ pc = "idle"
    /\ uploads < MaxUploads
    /\ \E g \in UploadGens :
        /\ ~RequestHasWorkbookName(g)
        /\ gen' = g
        /\ flashed' = IF ~g.has_file THEN <<"error", "No file selected.">>
                      ELSE IF g.filename = <<>>
                      THEN <<"error", "Please choose a file before uploading.">>
                      ELSE <<"error", "Only .xlsx files are supported.">>
    /\ uploads' = uploads + 1
    /\ UNCHANGED <<call, ret, procVars, CURRENT_OUTPUTS, input_files>>

\* The file is saved, validate_file_location returns False, the file is
\* removed again (os.remove is taken to succeed on the file just saved)
UploadInvalid ==
    /\ pc = "idle"
    /\ uploads < MaxUploads
    /\ \E g \in UploadGens :
        /\ RequestHasWorkbookName(g)
        /\ ~validate_file_location(UploadFile(g), g.location)
        /\ gen' = g
    /\ uploads' = uploads + 1
    /\ input_files' = (input_files \cup {uploads + 1}) \ {uploads + 1}
    /\ flashed' = <<"error", "Please upload the schedule of the location">>
    /\ UNCHANGED <<call, ret, procVars, CURRENT_OUTPUTS>>

\* The file is saved and validated; process_schedule_file is entered
UploadAccepted ==
    /\ pc = "idle"
    /\ uploads < MaxUploads
    /\ \E g \in UploadGens :
        /\ RequestHasWorkbookName(g)
        /\ validate_file_location(UploadFile(g), g.location)
        /\ gen' = g
        /\ location' = g.location
        /\ wb' = UploadFile(g)
    /\ uploads' = uploads + 1
    /\ input_files' = input_files \cup {uploads + 1}
    /\ pc' = "start"
    /\ UNCHANGED <<call, ret, date_columns, date_labels, file_counter, row_idx,
                   shift_data, total_assignments_found, mapped_assignments_found,
                   unmapped_roles_list, outputs, save_errors,
                   CURRENT_OUTPUTS, flashed>>

\* The new batch added to the batch before it
UploadReturns_Merged ==
    /\ pc = "done"
    /\ CURRENT_OUTPUTS' = CURRENT_OUTPUTS \o outputs
    /\ flashed' = IF outputs # <<>> THEN <<"success", "Successfully generated chart(s).">>
                  ELSE <<"error", "Unable to process that file.">>
    /\ ProcessIdle
    /\ UNCHANGED <<call, ret, gen, uploads, input_files>>

\* process_schedule_file has returned: if outputs: CURRENT_OUTPUTS = outputs
UploadReturns ==
    /\ pc = "done"
    /\ CURRENT_OUTPUTS' = IF outputs # <<>> THEN outputs ELSE CURRENT_OUTPUTS
    /\ flashed' = IF outputs # <<>> THEN <<"success", "Successfully generated chart(s).">>
                  ELSE <<"error", "Unable to process that file.">>
    /\ ProcessIdle
    /\ UNCHANGED <<call, ret, gen, uploads, input_files>>

\* The workbook that validate_file_location has just loaded loads again in
\* process_schedule_file, so the branch of OpenFails is not taken here
NextUpload ==
    \/ UploadRejected
    \/ UploadInvalid
    \/ UploadAccepted
    \/ NoDateColumns
    \/ DatesFound
    \/ BeginDate
    \/ ProcessRow
    \/ SaveSucceeds
    \/ SaveFails
    \/ UploadReturns

InitUpload ==
    /\ IdleProcess
    /\ ModuleLoaded
    /\ call = NoCall
    /\ ret = Pending
    /\ gen = [kind |-> "none"]

SpecUpload == InitUpload /\ [][NextUpload]_vars


\* The step on which upload gets the list process_schedule_file returns
UploadReturnsStep == pc = "done" /\ pc' = "idle"

\* C21: CURRENT_OUTPUTS is empty before the first upload; the return of an
\* upload that generated at least one chart replaces it, as a whole, by the
\* list of that upload; every other step (a request rejected for its file
\* part, its file name or its location, an upload that generated no chart,
\* the steps of the processing itself) leaves it unchanged.
Thm_C21_MostRecentBatch ==
    /\ CURRENT_OUTPUTS = <<>>
    /\ [][IF UploadReturnsStep /\ outputs # <<>>
          THEN CURRENT_OUTPUTS' = outputs
          ELSE CURRENT_OUTPUTS' = CURRENT_OUTPUTS]_vars

\* The second upload generated no chart, and the batch of the first is
\* still there
Wit_C21_MostRecentBatch ==
    /\ pc = "idle" /\ uploads = 2
    /\ gen.book = "no date"
    /\ flashed = <<"error", "Unable to process that file.">>
    /\ Len(CURRENT_OUTPUTS) = 2

-----------------------------------------------------------------------------
(* Assignments that no Southside window takes *)

\* The start time of the generated row lies in no Southside window
OutsideSouthsideWindows ==
    /\ StartRowScanned /\ location = "southside"
    /\ \/ StartMinutes(gen) < HalfHours(11)
       \/ StartMinutes(gen) >= HalfHours(47)

\* C22: a valid assignment of "Cashier" (classified, in the layout) whose
\* start lies in no Southside window adds 1 to total and 0 to mapped; its
\* role label is not in the unmapped set and the grid is the one the date
\* column started with, so that total > mapped is the only trace.
Thm_C22_OutOfWindowAccounting ==
    OutsideSouthsideWindows =>
        /\ RowIsCharted(wb.rows[1][1], CurrentCell(1), location)
        /\ total_assignments_found = 1
        /\ mapped_assignments_found = 0
        /\ total_assignments_found > mapped_assignments_found
        /\ unmapped_roles_list = {}
        /\ shift_data = EmptyShiftData(location)

\* 5:29 AM, one minute before the first window opens
Wit_C22_OutOfWindowAccounting ==
    /\ OutsideSouthsideWindows
    /\ StartMinutes(gen) = HalfHours(11) - 1
    /\ total_assignments_found = 1
    /\ mapped_assignments_found = 0
    /\ unmapped_roles_list = {}

-----------------------------------------------------------------------------
(* The counters against the grid *)

\* The sum of f[x] over the finite set S
RECURSIVE SumOver(_, _)
SumOver(S, f) ==
    IF S = {} THEN 0
    ELSE LET x == CHOOSE y \in S : TRUE
         IN  f[x] + SumOver(S \ {x}, f)

\* The number of entries in all the lists of the grid
GridEntries ==
    SumOver(DOMAIN shift_data,
            [i \in DOMAIN shift_data |->
                SumOver(DOMAIN shift_data[i],
                        [c \in DOMAIN shift_data[i] |-> Len(shift_data[i][c])])])

\* The valid assignments of data row r in the current date column that are
\* dropped: the role is unmapped, its station is not in the layout, or no
\* shift window contains the start
DroppedInRow(r) ==
    LET role == wb.rows[r][1]
        category == get_category(str(role), location)
        valid == IF Falsy(CurrentCell(r)) THEN <<>>
                 ELSE ValidAssignments(role, CurrentCell(r))
    IN  IF NoCategory(category) \/ OutsideLayout(role, location)
        THEN Len(valid)
        ELSE Cardinality({k \in DOMAIN valid :
                            ShiftIndex(location, valid[k].start_time) = -1})

\* C23: while the rows of a date column are scanned, mapped is the number
\* of entries held in all the lists of the grid of that date, mapped is at
\* most total, and total - mapped is the number of valid assignments of the
\* rows scanned so far that were dropped for an unmapped role, a station
\* outside the layout or a start in no shift window.
Thm_C23_CounterInvariant ==
    pc = "rows" =>
        /\ mapped_assignments_found = GridEntries
        /\ mapped_assignments_found <= total_assignments_found
        /\ total_assignments_found - mapped_assignments_found =
                SumOver(1..row_idx, [r \in 1..row_idx |-> DroppedInRow(r)])

\* Southside, two charted rows: of the three valid assignments the one that
\* starts at 11:30 PM is in no window, the other two are in the grid
Wit_C23_CounterInvariant ==
    /\ pc = "rows" /\ row_idx = 2
    /\ location = "southside"
    /\ DroppedInRow(1) = 1 /\ DroppedInRow(2) = 0
    /\ total_assignments_found = 3
    /\ mapped_assignments_found = 2
    /\ GridEntries = 2

-----------------------------------------------------------------------------
(* One date column at a time *)

\* The (shift, station) lists that the step changes
ChangedLists ==
    {p \in UNION {{<<i, c>> : c \in DOMAIN shift_data[i]} : i \in DOMAIN shift_data} :
        shift_data'[p[1]][p[2]] # shift_data[p[1]][p[2]]}

\* C24: the grid and the counters are made anew when a date column begins;
\* a row step takes its assignments from the cell of that column only: with
\* k valid pairs in the cell it adds at most k entries, each to one list,
\* all under the station of the role, and at most k to each counter; no
\* step changes the source table.
Thm_C24_DateIsolation ==
    [][/\ wb' = wb
       /\ (pc = "date" /\ pc' = "rows") =>
            /\ \A i \in DOMAIN shift_data' : \A c \in DOMAIN shift_data'[i] :
                    shift_data'[i][c] = <<>>
            /\ total_assignments_found' = 0
            /\ mapped_assignments_found' = 0
            /\ unmapped_roles_list' = {}
       /\ RowStep =>
            LET k == ValidPairCount(CurrentCell(row_idx + 1))
                category == get_category(str(wb.rows[row_idx + 1][1]), location)
            IN  /\ Cardinality(ChangedLists) <= k
                /\ GridEntries' - GridEntries <= k
                /\ GridEntries' - GridEntries >= Cardinality(ChangedLists)
                /\ \A p \in ChangedLists :
                        category # None /\ p[2] = category.value
                /\ total_assignments_found' - total_assignments_found \in 0..k
                /\ mapped_assignments_found' - mapped_assignments_found \in 0..k]_vars

\* The first row of the second date column has been scanned: both columns
\* hold an assignment of Jane Doe, and the grid and the counters hold one
Wit_C24_DateIsolation ==
    /\ pc = "rows" /\ row_idx = 1
    /\ file_counter = 2
    /\ wb.rows[1][date_columns[1] + 1] = Cell_JaneBlankLine
    /\ CurrentCell(1) = Cell_JaneBlankLine
    /\ GridEntries = 1
    /\ total_assignments_found = 1
    /\ mapped_assignments_found = 1

\* The request in hand names a workbook file whose A1 does not carry the
\* marker of the selected location: the location is neither "ikes" nor
\* "southside", the file is no workbook, or A1 holds another text
FailsValidation(g) ==
    /\ RequestHasWorkbookName(g)
    /\ \/ g.location \notin {"ikes", "southside"}
       \/ g.book = "corrupt"
       \/ g.marker # g.location

====
